---- MODULE Spec2Model ----
(***************************************************************************)
(* Model of congress-list.py: the run of main() (two downloads, two YAML   *)
(* loads, process_legislators_data, write_csv, cleanup) as a sequential    *)
(* state machine.                                                          *)
(*                                                                         *)
(* Python values are represented as follows.                               *)
(*   - A dict is a function whose DOMAIN is the set of keys present, so    *)
(*     "k in d" is  "k" \in DOMAIN d  and d.get(k, v) is Get(d, "k", v).   *)
(*   - Strings that the code compares, formats, splits or parses (state    *)
(*     codes and names, district labels, dates) are sequences of           *)
(*     one-character strings, ordered by code point as Python orders them. *)
(*   - Strings the code only copies or tests for equality (party, phone,   *)
(*     url, name parts, handles, seat type, identifiers) are TLA+ strings. *)
(*   - None is the value None below when it stands where a character       *)
(*     sequence could stand, and "None" where a plain string could stand.  *)
(***************************************************************************)
EXTENDS Integers, Sequences, FiniteSets, TLC

(***************************************************************************)
(* Bounds of the model.                                                    *)
(***************************************************************************)
MaxRoster == 3      \* legislators per roster document
MaxTerms == 2       \* term entries per legislator
MaxSeat == 2        \* ordinary seat numbers are 0..MaxSeat
MaxSocial == 2      \* entries per social-media document

(***************************************************************************)
(* Program constants.                                                      *)
(***************************************************************************)
SenateKey == 999
FormatWidth == 2
RefDate == <<"2","0","2","5","-","0","1","-","0","1">>
SenateLabel == <<"S","e","n","a","t","e">>
None == <<"None">>
NoMember == <<>>

CurrentUrlFile == "legislators-current.yaml"
SocialUrlFile == "legislators-social-media.yaml"

(***************************************************************************)
(* Generic helpers: dict access, str ordering.                             *)
(***************************************************************************)
Get(d, k, default) == IF k \in DOMAIN d THEN d[k] ELSE default

Drop(d, k) == [x \in DOMAIN d \ {k} |-> d[x]]

Last(s) == s[Len(s)]

\* The characters used, in ascending code point order.
Chars ==
  <<" ", "-", ".", "0", "1", "2", "3", "4", "5", "6", "7", "8", "9",
    "A", "B", "C", "D", "E", "F", "G", "H", "I", "J", "K", "L", "M",
    "N", "O", "P", "Q", "R", "S", "T", "U", "V", "W", "X", "Y", "Z",
    "a", "b", "c", "d", "e", "f", "g", "h", "i", "j", "k", "l", "m",
    "n", "o", "p", "q", "r", "s", "t", "u", "v", "w", "x", "y", "z">>

Ord(c) == CHOOSE k \in 1..Len(Chars) : Chars[k] = c

MinLen(a, b) == IF Len(a) < Len(b) THEN Len(a) ELSE Len(b)

\* Python's a < b on str: lexicographic by code point, a proper prefix is smaller.
StrLess(a, b) ==
  \E k \in 1..(MinLen(a, b) + 1) :
     /\ \A m \in 1..(k - 1) : a[m] = b[m]
     /\ IF k <= MinLen(a, b) THEN Ord(a[k]) < Ord(b[k])
        ELSE Len(a) < Len(b)

Digits == <<"0", "1", "2", "3", "4", "5", "6", "7", "8", "9">>

IsDigit(c) == \E k \in 1..10 : Digits[k] = c

DigitVal(c) == (CHOOSE k \in 1..10 : Digits[k] = c) - 1

(***************************************************************************)
(* get_state_name: the fixed code -> full name table; unknown codes (and   *)
(* None) pass through unchanged.                                           *)
(***************************************************************************)
state_names ==
  <<
    <<<<"A","L">>, <<"A","l","a","b","a","m","a">>>>,
    <<<<"A","K">>, <<"A","l","a","s","k","a">>>>,
    <<<<"A","Z">>, <<"A","r","i","z","o","n","a">>>>,
    <<<<"A","R">>, <<"A","r","k","a","n","s","a","s">>>>,
    <<<<"C","A">>, <<"C","a","l","i","f","o","r","n","i","a">>>>,
    <<<<"C","O">>, <<"C","o","l","o","r","a","d","o">>>>,
    <<<<"C","T">>, <<"C","o","n","n","e","c","t","i","c","u","t">>>>,
    <<<<"D","E">>, <<"D","e","l","a","w","a","r","e">>>>,
    <<<<"F","L">>, <<"F","l","o","r","i","d","a">>>>,
    <<<<"G","A">>, <<"G","e","o","r","g","i","a">>>>,
    <<<<"H","I">>, <<"H","a","w","a","i","i">>>>,
    <<<<"I","D">>, <<"I","d","a","h","o">>>>,
    <<<<"I","L">>, <<"I","l","l","i","n","o","i","s">>>>,
    <<<<"I","N">>, <<"I","n","d","i","a","n","a">>>>,
    <<<<"I","A">>, <<"I","o","w","a">>>>,
    <<<<"K","S">>, <<"K","a","n","s","a","s">>>>,
    <<<<"K","Y">>, <<"K","e","n","t","u","c","k","y">>>>,
    <<<<"L","A">>, <<"L","o","u","i","s","i","a","n","a">>>>,
    <<<<"M","E">>, <<"M","a","i","n","e">>>>,
    <<<<"M","D">>, <<"M","a","r","y","l","a","n","d">>>>,
    <<<<"M","A">>, <<"M","a","s","s","a","c","h","u","s","e","t","t","s">>>>,
    <<<<"M","I">>, <<"M","i","c","h","i","g","a","n">>>>,
    <<<<"M","N">>, <<"M","i","n","n","e","s","o","t","a">>>>,
    <<<<"M","S">>, <<"M","i","s","s","i","s","s","i","p","p","i">>>>,
    <<<<"M","O">>, <<"M","i","s","s","o","u","r","i">>>>,
    <<<<"M","T">>, <<"M","o","n","t","a","n","a">>>>,
    <<<<"N","E">>, <<"N","e","b","r","a","s","k","a">>>>,
    <<<<"N","V">>, <<"N","e","v","a","d","a">>>>,
    <<<<"N","H">>, <<"N","e","w"," ","H","a","m","p","s","h","i","r","e">>>>,
    <<<<"N","J">>, <<"N","e","w"," ","J","e","r","s","e","y">>>>,
    <<<<"N","M">>, <<"N","e","w"," ","M","e","x","i","c","o">>>>,
    <<<<"N","Y">>, <<"N","e","w"," ","Y","o","r","k">>>>,
    <<<<"N","C">>, <<"N","o","r","t","h"," ","C","a","r","o","l","i","n","a">>>>,
    <<<<"N","D">>, <<"N","o","r","t","h"," ","D","a","k","o","t","a">>>>,
    <<<<"O","H">>, <<"O","h","i","o">>>>,
    <<<<"O","K">>, <<"O","k","l","a","h","o","m","a">>>>,
    <<<<"O","R">>, <<"O","r","e","g","o","n">>>>,
    <<<<"P","A">>, <<"P","e","n","n","s","y","l","v","a","n","i","a">>>>,
    <<<<"R","I">>, <<"R","h","o","d","e"," ","I","s","l","a","n","d">>>>,
    <<<<"S","C">>, <<"S","o","u","t","h"," ","C","a","r","o","l","i","n","a">>>>,
    <<<<"S","D">>, <<"S","o","u","t","h"," ","D","a","k","o","t","a">>>>,
    <<<<"T","N">>, <<"T","e","n","n","e","s","s","e","e">>>>,
    <<<<"T","X">>, <<"T","e","x","a","s">>>>,
    <<<<"U","T">>, <<"U","t","a","h">>>>,
    <<<<"V","T">>, <<"V","e","r","m","o","n","t">>>>,
    <<<<"V","A">>, <<"V","i","r","g","i","n","i","a">>>>,
    <<<<"W","A">>, <<"W","a","s","h","i","n","g","t","o","n">>>>,
    <<<<"W","V">>, <<"W","e","s","t"," ","V","i","r","g","i","n","i","a">>>>,
    <<<<"W","I">>, <<"W","i","s","c","o","n","s","i","n">>>>,
    <<<<"W","Y">>, <<"W","y","o","m","i","n","g">>>>,
    <<<<"D","C">>, <<"D","i","s","t","r","i","c","t"," ","o","f"," ","C","o","l","u","m","b","i","a">>>>,
    <<<<"P","R">>, <<"P","u","e","r","t","o"," ","R","i","c","o">>>>,
    <<<<"A","S">>, <<"A","m","e","r","i","c","a","n"," ","S","a","m","o","a">>>>,
    <<<<"G","U">>, <<"G","u","a","m">>>>,
    <<<<"M","P">>, <<"N","o","r","t","h","e","r","n"," ","M","a","r","i","a","n","a"," ","I","s","l","a","n","d","s">>>>,
    <<<<"V","I">>, <<"U",".","S","."," ","V","i","r","g","i","n"," ","I","s","l","a","n","d","s">>>>
  >>

StateCodes == {state_names[k][1] : k \in 1..Len(state_names)}

get_state_name(state_abbr) ==
  IF state_abbr \in StateCodes
  THEN (CHOOSE e \in {state_names[k] : k \in 1..Len(state_names)} : e[1] = state_abbr)[2]
  ELSE state_abbr

(***************************************************************************)
(* String conversions used by the seat label and by district_sort_key.     *)
(***************************************************************************)
\* str(x) as an f-string renders it: None becomes the text "None".
StrOf(x) == IF x = None THEN <<"N","o","n","e">> ELSE x

RECURSIVE DecDigits(_)
DecDigits(n) ==
  IF n < 10 THEN <<Digits[n + 1]>>
  ELSE DecDigits(n \div 10) \o <<Digits[(n % 10) + 1]>>

RECURSIVE ZeroPad(_, _)
ZeroPad(s, w) == IF Len(s) >= w THEN s ELSE ZeroPad(<<"0">> \o s, w)

\* f"{district_num:02d}" for a non-negative int.
Format02d_NoPad(n) == DecDigits(n)

Format02d(n) == ZeroPad(DecDigits(n), FormatWidth)

\* s.split('-')
RECURSIVE Split(_)
Split(s) ==
  IF \A k \in 1..Len(s) : s[k] # "-" THEN <<s>>
  ELSE LET k == CHOOSE j \in 1..Len(s) :
                   s[j] = "-" /\ \A m \in 1..(j - 1) : s[m] # "-"
       IN  <<SubSeq(s, 1, k - 1)>> \o Split(SubSeq(s, k + 1, Len(s)))

\* int(s) succeeds on the strings a label can contain exactly when s is a
\* non-empty run of decimal digits; otherwise it raises ValueError.
CanParseInt(s) == Len(s) > 0 /\ \A k \in 1..Len(s) : IsDigit(s[k])

RECURSIVE IntValue(_)
IntValue(s) ==
  IF Len(s) = 0 THEN 0
  ELSE IntValue(SubSeq(s, 1, Len(s) - 1)) * 10 + DigitVal(s[Len(s)])

\* district_sort_key: the numeric component of the key (the first component
\* is the state, which is the same for every member of one group).
district_sort_key(member) ==
  IF member.district = SenateLabel THEN SenateKey
  ELSE LET parts == Split(member.district)
       IN  IF Len(parts) < 2 THEN 0                  \* IndexError
           ELSE IF CanParseInt(parts[2]) THEN IntValue(parts[2])
           ELSE 0                                    \* ValueError

(***************************************************************************)
(* Row derivation, lines 97-165 of process_legislators_data.               *)
(***************************************************************************)
HasTerms(legislator) == "terms" \in DOMAIN legislator

current_term_First(legislator) == legislator.terms[1]

current_term_of(legislator) == Last(legislator.terms)

\* The currency test of line 100, negated: the legislator is kept.
IsCurrent(current_term) ==
  ~("end" \in DOMAIN current_term /\ StrLess(current_term.end, RefDate))

NormalizeParty(party) ==
  IF party = "Republican" THEN "R"
  ELSE IF party = "Democrat" THEN "D"
  ELSE IF party = "Independent" THEN "I"
  ELSE party

\* Line 130 formats district_num with :02d, which raises TypeError on None.
DistrictRaises(current_term) ==
  /\ Get(current_term, "type", "None") = "rep"
  /\ "district" \notin DOMAIN current_term

DistrictLabel(current_term) ==
  LET term_type == Get(current_term, "type", "None")
      state_abbr == Get(current_term, "state", None)
  IN  IF term_type = "sen" THEN SenateLabel
      ELSE IF term_type = "rep"
           THEN IF current_term.district = 0
                THEN StrOf(state_abbr) \o <<"-","A","L">>
                ELSE StrOf(state_abbr) \o <<"-">> \o Format02d(current_term.district)
      ELSE <<>>

EmptyDict == [x \in {} |-> x]

\* legislator.get('id', {}).get('bioguide')
BioguideOf(rec) == Get(Get(rec, "id", EmptyDict), "bioguide", "None")

Truthy(s) == s # "None" /\ s # ""

\* Lines 83-89: later entries overwrite earlier ones with the same id.
RECURSIVE BuildLookup(_)
BuildLookup(entries) ==
  IF Len(entries) = 0 THEN EmptyDict
  ELSE LET prev == BuildLookup(SubSeq(entries, 1, Len(entries) - 1))
           entry == entries[Len(entries)]
           bioguide_id == BioguideOf(entry)
       IN  IF Truthy(bioguide_id)
           THEN [x \in DOMAIN prev \cup {bioguide_id} |->
                   IF x = bioguide_id THEN Get(entry, "social", EmptyDict)
                   ELSE prev[x]]
           ELSE prev

\* Lines 139-151: the handle of one platform for one legislator.
Handle_Twitter(legislator, lookup, platform) ==
  LET bioguide_id == BioguideOf(legislator)
  IN  IF Truthy(bioguide_id) /\ bioguide_id \in DOMAIN lookup
      THEN Get(lookup[bioguide_id], "twitter", "")
      ELSE ""

Handle(legislator, lookup, platform) ==
  LET bioguide_id == BioguideOf(legislator)
  IN  IF Truthy(bioguide_id) /\ bioguide_id \in DOMAIN lookup
      THEN Get(lookup[bioguide_id], platform, "")
      ELSE ""

MakeMember(legislator, current_term, lookup) ==
  LET nm == Get(legislator, "name", EmptyDict)
  IN  [State |-> get_state_name(Get(current_term, "state", None)),
       name |-> Get(nm, "first", "") \o " " \o Get(nm, "last", ""),
       party |-> NormalizeParty(Get(current_term, "party", "")),
       district |-> DistrictLabel(current_term),
       phone |-> Get(current_term, "phone", ""),
       url |-> Get(current_term, "url", ""),
       twitter |-> Handle(legislator, lookup, "twitter"),
       facebook |-> Handle(legislator, lookup, "facebook"),
       youtube |-> Handle(legislator, lookup, "youtube"),
       instagram |-> Handle(legislator, lookup, "instagram")]

(***************************************************************************)
(* Grouping and ordering, lines 167-179.  members_by_state is an           *)
(* insertion-ordered dict, kept as a sequence of [key, members] pairs.     *)
(***************************************************************************)
HasKey(groups, key) == \E k \in 1..Len(groups) : groups[k].key = key

AppendMember(groups, key, m) ==
  IF HasKey(groups, key)
  THEN [k \in 1..Len(groups) |->
          IF groups[k].key = key
          THEN [key |-> key, members |-> Append(groups[k].members, m)]
          ELSE groups[k]]
  ELSE Append(groups, [key |-> key, members |-> <<m>>])

\* sorted() on the keys compares None with a str as soon as both occur.
KeysRaise(groups) ==
  /\ Len(groups) >= 2
  /\ \E k \in 1..Len(groups) : groups[k].key = None

InsertAt(s, pos, x) == SubSeq(s, 1, pos - 1) \o <<x>> \o SubSeq(s, pos, Len(s))

GroupBefore(g, h) == StrLess(g.key, h.key)

\* The place of g in the sorted sequence s: before the first larger key.
GroupInsertPos(s, g) ==
  IF \E k \in 1..Len(s) : GroupBefore(g, s[k])
  THEN CHOOSE k \in 1..Len(s) :
         GroupBefore(g, s[k]) /\ \A j \in 1..(k - 1) : ~GroupBefore(g, s[j])
  ELSE Len(s) + 1

\* sorted(members_by_state.keys()), carrying each key's group along.
RECURSIVE SortedGroups(_)
SortedGroups_Unsorted(groups) == groups

SortedGroups(groups) ==
  IF Len(groups) = 0 THEN <<>>
  ELSE LET done == SortedGroups(SubSeq(groups, 1, Len(groups) - 1))
           g == groups[Len(groups)]
       IN  InsertAt(done, GroupInsertPos(done, g), g)

MemberBefore(m, n) == district_sort_key(m) < district_sort_key(n)

\* Stable: m goes before the first member with a larger key, after equal ones.
MemberInsertPos(s, m) ==
  IF \E k \in 1..Len(s) : MemberBefore(m, s[k])
  THEN CHOOSE k \in 1..Len(s) :
         MemberBefore(m, s[k]) /\ \A j \in 1..(k - 1) : ~MemberBefore(m, s[j])
  ELSE Len(s) + 1

\* sorted(..., key=district_sort_key): stable, ascending.
RECURSIVE SortedGroup(_)
SortedGroup(members) ==
  IF Len(members) = 0 THEN <<>>
  ELSE LET done == SortedGroup(SubSeq(members, 1, Len(members) - 1))
           m == members[Len(members)]
       IN  InsertAt(done, MemberInsertPos(done, m), m)

RECURSIVE Flatten(_)
Flatten(groups) ==
  IF Len(groups) = 0 THEN <<>>
  ELSE SortedGroup(groups[1].members) \o Flatten(SubSeq(groups, 2, Len(groups)))

SortedMembers(groups) == Flatten(SortedGroups(groups))

(***************************************************************************)
(* Input documents.  The roster and the social-media document are what     *)
(* yaml.safe_load returns for the downloaded files; they are drawn from    *)
(* the bounded families below.                                             *)
(***************************************************************************)
SeqsUpTo(S, n) == UNION {[1..k -> S] : k \in 0..n}

PairRoster == MaxRoster - 1

SingleRoster == MaxRoster - 2

WI == <<"W","I">>
WY == <<"W","Y">>
IA == <<"I","A">>
CA == <<"C","A">>
ZZ == <<"Z","Z">>

Sen(state, party) ==
  [type |-> "sen", state |-> state, party |-> party,
   phone |-> "202-224-0001", url |-> "https://www.senate.gov/x"]

Rep(state, district, party) ==
  [type |-> "rep", state |-> state, district |-> district, party |-> party,
   phone |-> "202-225-0002", url |-> "https://x.house.gov"]

Person(bioguide, terms) ==
  [id |-> [bioguide |-> bioguide],
   name |-> [first |-> "Pat", last |-> "Doe"],
   terms |-> terms]

\* Family 1: term histories with and without end dates around the reference
\* date, including the empty history and the record without a terms field.
Date2024 == <<"2","0","2","4","-","1","2","-","3","1">>
Date2027 == <<"2","0","2","7","-","0","1","-","0","3">>

HistoryTerms ==
  { Sen(WI, "Democrat"),
    Rep(CA, 1, "Republican") @@ [end |-> Date2024],
    Sen(WY, "Republican") @@ [end |-> RefDate],
    Rep(IA, 0, "Independent") @@ [end |-> Date2027] }

HistoryLegislators ==
  {Person("H000001", ts) : ts \in SeqsUpTo(HistoryTerms, MaxTerms)}
    \cup {Drop(Person("H000002", <<>>), "terms")}

\* Family 2: one jurisdiction with many seats and its senator, a member whose
\* term has ended, and senators of two jurisdictions whose codes and names
\* order differently.
Seats == (0..MaxSeat) \cup {SenateKey, SenateKey + 1}

SeatLegislators ==
  {Person("S000001", <<Rep(IA, d, "Republican")>>) : d \in Seats}
    \cup {Person("S000002", <<Sen(IA, "Republican")>>)}
    \cup {Person("S000003", <<Rep(IA, 1, "Democrat") @@ [end |-> Date2024]>>)}
    \cup {Person("S000004", <<Sen(st, "Democrat")>>) : st \in {<<"A","K">>, <<"A","L">>}}

\* Family 3: senators of several jurisdictions, one of them not in the table.
OtherStates == {<<"A","L">>, <<"A","K">>, <<"A","S">>, <<"A","Z">>, WI, WY, ZZ}

StateLegislators == {Person("T000001", <<Sen(st, "Democrat")>>) : st \in OtherStates}

\* Family 4: complete records mixed with records that lack one field.
TermKeys == {"state", "type", "district", "party", "phone", "url"}

FieldLegislators ==
  {Person("F000001", <<Rep(CA, d, "Republican")>>) : d \in {0, 5, 12, 123}}
    \cup {Person("F000002", <<Sen(CA, p)>>) : p \in {"Democrat", "Independent", "Libertarian"}}
    \cup {Person("F000003", <<Drop(Rep(CA, 5, "Democrat"), k)>>) : k \in TermKeys}
    \cup {Person("F000004", <<Drop(Sen(CA, "Democrat"), "state")>>)}
    \cup {Person("F000005", <<[Sen(CA, "Democrat") EXCEPT !.type = "prez"]>>)}
    \cup {Drop(Person("F000006", <<Sen(WI, "Democrat")>>), k) : k \in {"id", "name"}}
    \cup {[Person("F000007", <<Sen(WI, "Democrat")>>) EXCEPT !.name = [first |-> "Pat"]]}

\* Family 5: identifiers to join on.
JoinLegislators ==
  {Person(b, <<Sen(WI, "Democrat")>>) : b \in {"J000001", "J000002"}}
    \cup {Drop(Person("J000003", <<Sen(WI, "Democrat")>>), "id")}

Platforms == {"twitter", "facebook", "youtube", "instagram"}

\* Handles are distinct per entry and platform.
FullSocial(tag) ==
  [twitter |-> "tw-" \o tag, facebook |-> "fb-" \o tag,
   youtube |-> "yt-" \o tag, instagram |-> "ig-" \o tag]

SocialEntries ==
  { [id |-> [bioguide |-> "J000001"]],
    [id |-> [bioguide |-> "J000001"], social |-> [twitter |-> "tw-only-J000001"]],
    [id |-> [bioguide |-> "J000001"], social |-> FullSocial("J000001")],
    [id |-> [bioguide |-> "J000002"], social |-> FullSocial("J000002")],
    [social |-> FullSocial("noid")],
    [id |-> [bioguide |-> ""], social |-> [twitter |-> "tw-only-blank"]] }

SocialDocs == SeqsUpTo(SocialEntries, MaxSocial)

JoinRosters == SeqsUpTo(JoinLegislators, MaxRoster)

\* The roster documents, and the social-media documents paired with each.
Rosters ==
  SeqsUpTo(HistoryLegislators, SingleRoster)
    \cup SeqsUpTo(SeatLegislators, MaxRoster)
    \cup SeqsUpTo(StateLegislators, MaxRoster)
    \cup SeqsUpTo(FieldLegislators, PairRoster)
    \cup JoinRosters

SocialDocsFor(roster) == IF roster \in JoinRosters THEN SocialDocs ELSE {<<>>}

(***************************************************************************)
(* State of one run of main().                                             *)
(***************************************************************************)
VARIABLES
  pc,                   \* the statement of main() about to execute, or "exit"
  exit_at,              \* the stage in which the process terminated
  exit_status,          \* process exit status once pc = "exit"
  error,                \* the exception that ended the run, "" if none
  console,              \* lines printed so far
  requests,             \* number of requests.get calls per URL file
  files,                \* downloaded local files that currently exist
  csv,                  \* "absent", "truncated" or "written"
  loaded,               \* which of the two documents have been loaded
  current_legislators,  \* the roster document
  social_media,         \* the social-media document
  social_media_lookup,  \* dict bioguide id -> social dict
  idx,                  \* number of roster entries the loop has consumed
  members_by_state,     \* insertion-ordered dict state -> list of members
  member,               \* the member entry created last
  sorted_members        \* the list process_legislators_data returns

vars ==
  <<pc, exit_at, exit_status, error, console, requests, files, csv, loaded,
    current_legislators, social_media, social_media_lookup, idx,
    members_by_state, member, sorted_members>>

io == <<requests, files, csv, loaded>>

data == <<current_legislators, social_media>>

transform == <<social_media_lookup, idx, members_by_state, member, sorted_members>>

UrlFiles == <<CurrentUrlFile, SocialUrlFile>>

Init ==
  /\ pc = "download1"
  /\ exit_at = ""
  /\ exit_status = 0
  /\ error = ""
  /\ console = <<"Downloading and processing data">>
  /\ requests = [f \in {CurrentUrlFile, SocialUrlFile} |-> 0]
  /\ files = {}
  /\ csv = "absent"
  /\ loaded = {}
  /\ current_legislators = <<>>
  /\ social_media = <<>>
  /\ social_media_lookup = EmptyDict
  /\ idx = 0
  /\ members_by_state = <<>>
  /\ member = NoMember
  /\ sorted_members = <<>>

\* sys.exit(1) after printing msg, or an uncaught exception (traceback, status 1).
Terminate(status, exc, msg) ==
  /\ pc' = "exit"
  /\ exit_at' = pc
  /\ exit_status' = status
  /\ error' = exc
  /\ console' = IF msg = "" THEN console ELSE Append(console, msg)

Continue(next) ==
  /\ pc' = next
  /\ UNCHANGED <<exit_at, exit_status, error, console>>

\* download_yaml_file, lines 19-34, for the n-th URL.
DownloadFail_Continue(n) ==
  /\ pc' = (IF n = 1 THEN "download2" ELSE "load1")
  /\ console' = Append(console, "Error downloading file")
  /\ UNCHANGED <<exit_at, exit_status, error, files>>

DownloadFail(n) ==
  /\ Terminate(1, "RequestException", "Error downloading file")
  /\ UNCHANGED files

Download(n) ==
  /\ pc = (IF n = 1 THEN "download1" ELSE "download2")
  /\ requests' = [requests EXCEPT ![UrlFiles[n]] = @ + 1]
  /\ \/ /\ files' = files \cup {UrlFiles[n]}
        /\ Continue(IF n = 1 THEN "download2" ELSE "load1")
     \/ DownloadFail(n)
  /\ UNCHANGED <<csv, loaded, data, transform>>

\* load_yaml_data, lines 36-44, for the n-th file.
Load(n) ==
  /\ pc = (IF n = 1 THEN "load1" ELSE "load2")
  /\ \/ /\ IF n = 1
           THEN /\ current_legislators' \in Rosters
                /\ UNCHANGED social_media
           ELSE /\ social_media' \in SocialDocsFor(current_legislators)
                /\ UNCHANGED current_legislators
        /\ loaded' = loaded \cup {UrlFiles[n]}
        /\ Continue(IF n = 1 THEN "load2" ELSE "transform")
     \/ /\ Terminate(1, "YAMLError", "Error loading YAML file")
        /\ UNCHANGED <<loaded, data>>
  /\ UNCHANGED <<requests, files, csv, transform>>

\* process_legislators_data, lines 80-89: build the social-media lookup.
BuildSocialLookup ==
  /\ pc = "transform"
  /\ social_media_lookup' = BuildLookup(social_media)
  /\ Continue("loop")
  /\ UNCHANGED <<io, data, idx, members_by_state, member, sorted_members>>

\* One iteration of the loop of lines 91-167.
ProcessLegislator ==
  /\ pc = "loop"
  /\ idx < Len(current_legislators)
  /\ LET legislator == current_legislators[idx + 1]
     IN  IF ~HasTerms(legislator)
         THEN /\ idx' = idx + 1
              /\ Continue("loop")
              /\ UNCHANGED <<members_by_state, member>>
         ELSE IF legislator.terms = <<>>
         THEN /\ Terminate(1, "IndexError", "Traceback")
              /\ UNCHANGED <<idx, members_by_state, member>>
         ELSE LET current_term == current_term_of(legislator)
              IN  IF ~IsCurrent(current_term)
                  THEN /\ idx' = idx + 1
                       /\ Continue("loop")
                       /\ UNCHANGED <<members_by_state, member>>
                  ELSE IF DistrictRaises(current_term)
                  THEN /\ Terminate(1, "TypeError", "Traceback")
                       /\ UNCHANGED <<idx, members_by_state, member>>
                  ELSE LET m == MakeMember(legislator, current_term, social_media_lookup)
                       IN  /\ member' = m
                           /\ members_by_state' = AppendMember(members_by_state, m.State, m)
                           /\ idx' = idx + 1
                           /\ Continue("loop")
  /\ UNCHANGED <<io, data, social_media_lookup, sorted_members>>

\* Lines 169-179: order the groups and return to main.
SortMembersStep ==
  /\ pc = "loop"
  /\ idx = Len(current_legislators)
  /\ IF KeysRaise(members_by_state)
     THEN /\ Terminate(1, "TypeError", "Traceback")
          /\ UNCHANGED sorted_members
     ELSE /\ sorted_members' = SortedMembers(members_by_state)
          /\ Continue("write")
  /\ UNCHANGED <<io, data, social_media_lookup, idx, members_by_state, member>>

\* write_csv, lines 181-196, and main's use of it at line 217: the return
\* value is discarded, so main continues either way.
WriteCsv ==
  /\ pc = "write"
  /\ \/ /\ csv' = "written"
        /\ console' = Append(console, "Successfully created")
     \/ /\ csv' \in {csv, "truncated"}
        /\ console' = Append(console, "Error writing CSV file")
  /\ pc' = "cleanup"
  /\ UNCHANGED <<exit_at, exit_status, error, requests, files, loaded, data, transform>>

\* Lines 220-221, then main returns and the interpreter exits with status 0.
Cleanup ==
  /\ pc = "cleanup"
  /\ files' = files \ {CurrentUrlFile, SocialUrlFile}
  /\ Terminate(0, "", "")
  /\ UNCHANGED <<requests, csv, loaded, data, transform>>

Next ==
  \/ \E n \in {1, 2} : Download(n)
  \/ \E n \in {1, 2} : Load(n)
  \/ BuildSocialLookup
  \/ ProcessLegislator
  \/ SortMembersStep
  \/ WriteCsv
  \/ Cleanup

Spec == Init /\ [][Next]_vars

Returned == pc \in {"write", "cleanup"} \/ (pc = "exit" /\ exit_at = "cleanup")

TypeOK ==
  /\ pc \in {"download1", "download2", "load1", "load2", "transform", "loop",
             "write", "cleanup", "exit"}
  /\ exit_status \in {0, 1}
  /\ csv \in {"absent", "truncated", "written"}
  /\ idx \in 0..Len(current_legislators)

(***************************************************************************)
(* Vocabulary of the properties.                                           *)
(***************************************************************************)
RefDateNum == 20250101

\* A date "YYYY-MM-DD" as the number YYYYMMDD.
DateNum(d) == IntValue(SelectSeq(d, IsDigit))

NoTermEntries(legislator) ==
  ~HasTerms(legislator) \/ Len(legislator.terms) = 0

\* The legislator has term entries and its last one has not ended before
\* the reference date.
PassesFilter(legislator) ==
  /\ ~NoTermEntries(legislator)
  /\ LET t == legislator.terms[Len(legislator.terms)]
     IN  "end" \in DOMAIN t => DateNum(t.end) >= RefDateNum

RowCount(groups) ==
  LET RECURSIVE Sum(_)
      Sum(k) == IF k = 0 THEN 0 ELSE Len(groups[k].members) + Sum(k - 1)
  IN  Sum(Len(groups))

PassingUpTo(n) == {k \in 1..n : PassesFilter(current_legislators[k])}

InLoop == pc = "loop"

\* The loop has just emitted the row of roster entry idx.
JustEmitted == InLoop /\ idx >= 1 /\ PassesFilter(current_legislators[idx])

LastTerm == current_legislators[idx].terms[Len(current_legislators[idx].terms)]

IsSenateRow(row) == row.district = SenateLabel

\* A representative's row: a label "XX-AL" or "XX-<digits>".
IsRepRow(row) ==
  /\ ~IsSenateRow(row)
  /\ Len(Split(row.district)) = 2
  /\ \/ Split(row.district)[2] = <<"A","L">>
     \/ CanParseInt(Split(row.district)[2])

RowSeat(row) ==
  IF Split(row.district)[2] = <<"A","L">> THEN 0
  ELSE IntValue(Split(row.district)[2])

Printed(msg) == \E k \in 1..Len(console) : console[k] = msg

\* C1: when process_legislators_data returns, a legislator with term entries
\* has contributed exactly one row if its last term has no end date or an end
\* date not earlier than 2025-01-01, and none otherwise, so that the number of
\* rows equals the number of such legislators; the same count holds after
\* every iteration of the loop.  (Rosters on which the function raises are the
\* subject of C7 and C8.)
C1_OneRowPerCurrentLegislator ==
  /\ InLoop => RowCount(members_by_state) = Cardinality(PassingUpTo(idx))
  /\ Returned => Len(sorted_members) = Cardinality(PassingUpTo(Len(current_legislators)))

\* A returned run whose roster has a legislator with an ended first term and
\* a last term that ends on the reference date, and which has one row.
C1_Witness ==
  /\ Returned
  /\ Len(sorted_members) = 1
  /\ \E k \in 1..Len(current_legislators) :
       LET ts == Get(current_legislators[k], "terms", <<>>)
       IN  /\ Len(ts) = 2
           /\ "end" \in DOMAIN ts[1] /\ DateNum(ts[1].end) < RefDateNum
           /\ "end" \in DOMAIN ts[2] /\ DateNum(ts[2].end) = RefDateNum

\* A returned run whose roster has a legislator with an endless first term and
\* an ended last term, and which has no row.
C1_WitnessEnded ==
  /\ Returned
  /\ Len(sorted_members) = 0
  /\ \E k \in 1..Len(current_legislators) :
       LET ts == Get(current_legislators[k], "terms", <<>>)
       IN  /\ Len(ts) = 2
           /\ "end" \notin DOMAIN ts[1]
           /\ "end" \in DOMAIN ts[2] /\ DateNum(ts[2].end) < RefDateNum

\* C2: in the returned list, within one jurisdiction, no senator row precedes
\* a representative row, and representative rows are in ascending seat number
\* (at-large, seat 0, first), whatever the seat numbers are.
C2_SenatorsAfterRepresentatives ==
  Returned =>
    \A i \in 1..Len(sorted_members) : \A j \in 1..Len(sorted_members) :
      (i < j /\ sorted_members[i].State = sorted_members[j].State) =>
        /\ ~(IsSenateRow(sorted_members[i]) /\ IsRepRow(sorted_members[j]))
        /\ (IsRepRow(sorted_members[i]) /\ IsRepRow(sorted_members[j]))
             => RowSeat(sorted_members[i]) <= RowSeat(sorted_members[j])

\* C3: in the returned list the rows are in ascending order of State, compared
\* as strings, so the rows of one jurisdiction are contiguous; State is the
\* translated full name, never a two-letter code of the table.
C3_GroupsInNameOrder ==
  Returned =>
    /\ \A i \in 1..Len(sorted_members) : \A j \in 1..Len(sorted_members) :
         (i < j /\ sorted_members[i].State # sorted_members[j].State)
            => StrLess(sorted_members[i].State, sorted_members[j].State)
    /\ \A i \in 1..Len(sorted_members) : sorted_members[i].State \notin StateCodes

\* A returned run whose roster lists Alaska before Alabama and whose output
\* lists Alabama first (the codes AK, AL order the other way round).
C3_Witness ==
  /\ Returned
  /\ Len(current_legislators) >= 2
  /\ \A k \in 1..2 : ~NoTermEntries(current_legislators[k])
  /\ Get(current_legislators[1].terms[1], "state", None) = <<"A","K">>
  /\ Get(current_legislators[2].terms[1], "state", None) = <<"A","L">>
  /\ Len(sorted_members) >= 2
  /\ sorted_members[1].State = <<"A","l","a","b","a","m","a">>
  /\ sorted_members[2].State = <<"A","l","a","s","k","a">>

\* C4: a run in which a download, a YAML load or the CSV write failed ends
\* with a non-zero status and a message, and a run ends with status 0 only
\* when the table was fully written.
C4_ErrorsAreFatal ==
  pc = "exit" =>
    /\ (\/ Printed("Error downloading file")
        \/ Printed("Error loading YAML file")
        \/ Printed("Error writing CSV file")) => exit_status # 0
    /\ exit_status = 0 => csv = "written"

\* C5: in every terminal state, no downloaded local file still exists.
C5_CleanupOnEveryExit == pc = "exit" => files = {}

\* C6: each URL is requested at most once; the CSV is touched only after both
\* downloads and both loads succeeded; after a failed download or load the
\* process has terminated in that stage, no later stage has run and the CSV
\* is untouched.
C6_StagesInSequence ==
  /\ \A f \in DOMAIN requests : requests[f] <= 1
  /\ csv # "absent" =>
       /\ \A f \in DOMAIN requests : requests[f] = 1
       /\ loaded = {CurrentUrlFile, SocialUrlFile}
       /\ ~Printed("Error downloading file")
       /\ ~Printed("Error loading YAML file")
  /\ (Printed("Error downloading file") \/ Printed("Error loading YAML file")) =>
       /\ pc = "exit"
       /\ exit_at \in {"download1", "download2", "load1", "load2"}
       /\ csv = "absent"
       /\ social_media_lookup = EmptyDict /\ idx = 0
       /\ members_by_state = <<>> /\ sorted_members = <<>>
       /\ exit_at = "download1" => requests[SocialUrlFile] = 0 /\ files = {}
       /\ exit_at \in {"download1", "download2", "load1"} => loaded = {}
       /\ exit_at = "load2" => loaded = {CurrentUrlFile}

\* The second download has failed after the first succeeded.
C6_Witness ==
  /\ pc = "exit"
  /\ exit_at = "download2"
  /\ Printed("Error downloading file")
  /\ requests[CurrentUrlFile] = 1 /\ requests[SocialUrlFile] = 1

\* C7: a roster entry without term entries (no terms field, or an empty list)
\* never ends the loop with an exception.
C7_NoTermsIsSkipped ==
  ~(/\ pc = "exit"
    /\ exit_at = "loop"
    /\ idx < Len(current_legislators)
    /\ NoTermEntries(current_legislators[idx + 1]))

\* C8: on a roster whose entries all have term entries, whatever optional
\* fields their records lack, process_legislators_data does not raise.
C8_MissingFieldsNeverRaise ==
  (\A k \in 1..Len(current_legislators) : ~NoTermEntries(current_legislators[k])) =>
    ~(pc = "exit" /\ exit_at = "loop")

\* The handle of a platform in the last social-media entry that has the
\* legislator's identifier; "" without identifier, entry or platform.
ExpectedHandle(legislator, platform) ==
  LET hasId == "id" \in DOMAIN legislator /\ "bioguide" \in DOMAIN legislator.id
      matches == {k \in 1..Len(social_media) :
                    /\ hasId
                    /\ "id" \in DOMAIN social_media[k]
                    /\ "bioguide" \in DOMAIN social_media[k].id
                    /\ social_media[k].id.bioguide = legislator.id.bioguide}
  IN  IF matches = {} THEN ""
      ELSE LET e == social_media[CHOOSE k \in matches : \A m \in matches : m <= k]
           IN  IF "social" \in DOMAIN e /\ platform \in DOMAIN e.social
               THEN e.social[platform] ELSE ""

\* C9: the four handle fields of the row emitted for a current legislator are
\* the handles of the social-media entry with the same identifier, and "" when
\* the legislator has no identifier, no entry has it, or the entry lacks the
\* platform.
C9_SocialMediaJoin ==
  JustEmitted =>
    \A p \in Platforms : member[p] = ExpectedHandle(current_legislators[idx], p)

\* A row was emitted for a legislator whose entry has only a twitter handle,
\* while another entry of the document has a facebook handle.
C9_Witness ==
  /\ JustEmitted
  /\ member.twitter # "" /\ member.facebook = ""
  /\ \E k \in 1..Len(social_media) :
       /\ "social" \in DOMAIN social_media[k]
       /\ "facebook" \in DOMAIN social_media[k].social

\* C10: the seat label of the row emitted for a current legislator is "Senate"
\* for a senator, code-AL for a representative of seat 0, code-NN for a
\* representative of seat N > 0 with N in decimal, zero-padded to two digits
\* and no further, and "" for any other or missing seat type.
C10_SeatLabel ==
  JustEmitted =>
    LET t == LastTerm
        ty == IF "type" \in DOMAIN t THEN t.type ELSE "missing"
        lab == member.district
    IN  /\ ty = "sen" => lab = <<"S","e","n","a","t","e">>
        /\ ty \notin {"sen", "rep"} => lab = <<>>
        /\ (ty = "rep" /\ "state" \in DOMAIN t /\ t.district = 0) =>
              lab = t.state \o <<"-","A","L">>
        /\ (ty = "rep" /\ "state" \in DOMAIN t /\ t.district > 0) =>
              LET n == Len(t.state)
                  ds == SubSeq(lab, n + 2, Len(lab))
              IN  /\ SubSeq(lab, 1, n + 1) = t.state \o <<"-">>
                  /\ Len(ds) >= 2
                  /\ \A k \in 1..Len(ds) : IsDigit(ds[k])
                  /\ IntValue(ds) = t.district
                  /\ Len(ds) > 2 => ds[1] # "0"

\* The row of the representative of seat 5 of CA has just been emitted.
C10_Witness ==
  /\ JustEmitted
  /\ Get(LastTerm, "type", "") = "rep"
  /\ Get(LastTerm, "district", 0) = 5
  /\ member.district = <<"C","A","-","0","5">>

====
